---------------------------- MODULE Spec2Model ----------------------------
(***************************************************************************)
(* A model of the request governor of sans: the ResetLock of               *)
(* src/sans/_lock.py (a threading.Lock, a FIFO deque of wake callbacks and *)
(* a deferred release performed by a threading.Timer), and the retry       *)
(* protocol of RateLimiter / TelegramLimiter in src/sans/limiter.py.       *)
(*                                                                         *)
(* Granularity.  Callers are OS threads (blocking `with`) and asyncio      *)
(* tasks (`async with`); a deferred release runs in a timer thread of its  *)
(* own.  Threads interleave between any two operations on the shared lock  *)
(* state, so every read or write of _lock, _waiters and __deferred is a    *)
(* step of its own.  Time is discrete: Tick advances every running delay   *)
(* by one unit, and nothing forces a thread to run as soon as it could.    *)
(***************************************************************************)
EXTENDS Integers, Sequences, FiniteSets, TLC

\* ------------------------------------------------------------------ bounds
Threads == {"t1", "t2"}          \* callers that block: `with lock`
Asyncs == {"a1"}                 \* callers that suspend: `async with lock`
Callers == Threads \cup Asyncs
Locks == {"api", "tg"}           \* RateLimiter._lock, TelegramLimiter._lock
MaxTimers == 2                   \* timer threads alive at once, per lock
MaxDelay == 1                    \* largest delay a caller passes to defer()
TimerIds == 1..MaxTimers
Delays == 0..MaxDelay

VARIABLES
  locked,     \* [Locks -> BOOLEAN]: ResetLock._lock.locked()
  waiters,    \* [Locks -> Seq(Callers)]: ResetLock._waiters, by owner of the callback
  signal,     \* [Callers -> BOOLEAN]: the waiter's local lock is unlocked / its future is done
  deferred,   \* [Locks -> 0..MaxTimers]: the timer in ResetLock.__deferred, 0 when unset
  finalizer,  \* [Locks -> 0..MaxTimers]: the timer ResetLock.__finalizer would stop, 0 when spent
  timer,      \* [Locks -> [TimerIds -> [st, dl, el]]]: the timer threads
  lop,        \* [Callers -> [step, lock, arg, ok, err]]: the lock method a caller is in
  pc,         \* [Callers -> STRING]: the caller's position outside lock methods
  held,       \* [Callers -> SUBSET Locks]: with-blocks the caller is inside
  exc,        \* [Callers -> STRING]: the exception that ended the caller ("none")
  ahead,      \* [Callers -> SUBSET Callers]: who was queued when the caller began acquiring
  call,       \* [Callers -> record]: the locals of the caller's sync_auth_flow / async_auth_flow
  agent,      \* STRING: RateLimiter._agent, "" while it is not set
  tgAge,      \* ticks since TelegramLimiter._last_request was written, -1 while it is None
  auth,       \* [password, autologin]: NSAuth._password and NSAuth._autologin
  pins,       \* [AutologinKeys -> value]: auth._PINS, None where the key is missing
  twin,       \* [locked, waiters, deferred, finalizer, timer, tgAge]: the locks and
              \* _last_request of a second interpreter, which runs the mirrored flow
  turn        \* [active, swapped]: whose interpreter the variables above describe

lockVars == <<locked, waiters, signal, deferred, finalizer, timer>>
callVars == <<lop, pc, held, exc, ahead>>
authVars == <<auth, pins>>
mirrorVars == <<twin, turn>>
flowVars == <<call, agent, tgAge, auth, pins, twin, turn>>
vars == <<locked, waiters, signal, deferred, finalizer, timer, lop, pc, held, exc, ahead,
          call, agent, tgAge, auth, pins, twin, turn>>

\* ----------------------------------------------------------------- helpers
NoOp == [step |-> "none", lock |-> "api", arg |-> 0, ok |-> "idle", err |-> "idle"]
TimerOff == [st |-> "off", dl |-> 0, el |-> 0]

RemoveFrom(q, c) == SelectSeq(q, LAMBDA x : x # c)

\* A call of a lock method: the caller continues at ok when it returns, at err
\* when it raises.
Call(c, step, l, arg, ok, err) ==
  [step |-> step, lock |-> l, arg |-> arg, ok |-> ok, err |-> err]

\* The states of __enter__/__aenter__ after the callback was appended and
\* before the underlying lock is taken.
QueuedSteps == {"wait", "deq", "acq"}
Queued(l) == {c \in Callers : lop[c].lock = l /\ lop[c].step \in QueuedSteps}

TypeOK ==
  /\ locked \in [Locks -> BOOLEAN]
  /\ \A l \in Locks : \A i \in 1..Len(waiters[l]) : waiters[l][i] \in Callers
  /\ signal \in [Callers -> BOOLEAN]
  /\ deferred \in [Locks -> 0..MaxTimers]
  /\ finalizer \in [Locks -> 0..MaxTimers]
  /\ \A l \in Locks : \A i \in TimerIds :
       /\ timer[l][i].st \in {"off", "wait", "del", "wake", "unlock"}
       /\ timer[l][i].el <= timer[l][i].dl
  /\ \A c \in Callers : held[c] \subseteq Locks /\ ahead[c] \subseteq Callers

LockInit ==
  /\ locked = [l \in Locks |-> FALSE]
  /\ waiters = [l \in Locks |-> <<>>]
  /\ signal = [c \in Callers |-> FALSE]
  /\ deferred = [l \in Locks |-> 0]
  /\ finalizer = [l \in Locks |-> 0]
  /\ timer = [l \in Locks |-> [i \in TimerIds |-> TimerOff]]
  /\ lop = [c \in Callers |-> NoOp]
  /\ held = [c \in Callers |-> {}]
  /\ exc = [c \in Callers |-> "none"]
  /\ ahead = [c \in Callers |-> {}]

\* A lock method returns: the caller goes on at lop[c].ok.  Returning from
\* __enter__ puts the caller inside the with-block of that lock.
Return(c) ==
  /\ pc' = [pc EXCEPT ![c] = lop[c].ok]
  /\ lop' = [lop EXCEPT ![c] = NoOp]
  /\ exc' = exc

Raise(c, e) ==
  /\ pc' = [pc EXCEPT ![c] = lop[c].err]
  /\ lop' = [lop EXCEPT ![c] = NoOp]
  /\ exc' = [exc EXCEPT ![c] = e]

Goto(c, step) == lop' = [lop EXCEPT ![c].step = step]


\* ------------------------------------------------------- ResetLock: waking
\* _wake_up_next: call the callback at the head of the deque; the entry stays
\* in the deque until its owner removes it.  A thread waiter's callback is
\* lock.release of its local lock, which raises RuntimeError when that lock is
\* already unlocked; an asyncio waiter's callback schedules future.set_result,
\* whose second run fails inside the event loop and not in the waker.
WakeRaises(l) ==
  /\ waiters[l] # <<>>
  /\ Head(waiters[l]) \in Threads
  /\ signal[Head(waiters[l])]

WakeUpNext(l) ==
  signal' = IF waiters[l] = <<>> THEN signal
            ELSE [signal EXCEPT ![Head(waiters[l])] = TRUE]

\* ---------------------------------------- ResetLock.__enter__ / __aenter__
\* Leaving the acquisition, by return or by exception, ends the caller's turn
\* in the ghost queue order.
LeaveQueue(c, keep) ==
  ahead' = [x \in Callers |-> IF x = c THEN keep ELSE ahead[x] \ {c}]

ReturnEnter(c) ==
  /\ Return(c)
  /\ held' = [held EXCEPT ![c] = @ \cup {lop[c].lock}]
  /\ LeaveQueue(c, ahead[c])

\* `if not waiters:`
EnterCheck(c) ==
  LET l == lop[c].lock IN
  /\ lop[c].step = "enter"
  /\ Goto(c, IF waiters[l] = <<>> THEN "try" ELSE "enq")
  /\ ahead' = [ahead EXCEPT ![c] = Queued(l) \ {c}]
  /\ UNCHANGED <<lockVars, pc, held, exc>>

\* `if acquire(False): return`
EnterTry(c) ==
  LET l == lop[c].lock IN
  /\ lop[c].step = "try"
  /\ IF locked[l]
       THEN /\ Goto(c, "enq")
            /\ UNCHANGED <<locked, pc, held, exc, ahead>>
       ELSE /\ locked' = [locked EXCEPT ![l] = TRUE]
            /\ ReturnEnter(c)
  /\ UNCHANGED <<waiters, signal, deferred, finalizer, timer>>

\* _threading_sleep_forever / _asyncio_sleep_forever: a fresh local lock, held
\* (a fresh pending future), and `callback_deque.append(release)`.
Enqueue(c) ==
  LET l == lop[c].lock IN
  /\ lop[c].step = "enq"
  /\ waiters' = [waiters EXCEPT ![l] = Append(@, c)]
  /\ signal' = [signal EXCEPT ![c] = FALSE]
  /\ Goto(c, "wait")
  /\ UNCHANGED <<locked, deferred, finalizer, timer, pc, held, exc, ahead>>

\* A thread's `lock.acquire()` on its local lock returns once the callback has
\* run, and the local lock is locked again.  An asyncio task resumes from
\* `await future` and runs the finally clause before anything else can run
\* on its loop.
Resume(c) ==
  LET l == lop[c].lock IN
  /\ lop[c].step = "wait"
  /\ signal[c]
  /\ IF c \in Threads
       THEN /\ signal' = [signal EXCEPT ![c] = FALSE]
            /\ Goto(c, "deq")
            /\ UNCHANGED waiters
       ELSE /\ waiters' = [waiters EXCEPT ![l] = RemoveFrom(@, c)]
            /\ Goto(c, "acq")
            /\ UNCHANGED signal
  /\ UNCHANGED <<locked, deferred, finalizer, timer, pc, held, exc, ahead>>

\* A thread's `finally: callback_deque.remove(lock.release)` and the end of
\* `with lock:`, which releases the local lock: RuntimeError when a second
\* wake-up has unlocked it in between.
Dequeue(c) ==
  LET l == lop[c].lock IN
  /\ lop[c].step = "deq"
  /\ waiters' = [waiters EXCEPT ![l] = RemoveFrom(@, c)]
  /\ signal' = [signal EXCEPT ![c] = FALSE]
  /\ IF signal[c]
       THEN /\ Raise(c, "RuntimeError")
            /\ LeaveQueue(c, {})
       ELSE /\ Goto(c, "acq")
            /\ UNCHANGED <<pc, exc, ahead>>
  /\ UNCHANGED <<locked, deferred, finalizer, timer, held>>

\* The blocking `acquire()` of a caller that was woken.
Acquire(c) ==
  LET l == lop[c].lock IN
  /\ lop[c].step = "acq"
  /\ ~locked[l]
  /\ locked' = [locked EXCEPT ![l] = TRUE]
  /\ ReturnEnter(c)
  /\ UNCHANGED <<waiters, signal, deferred, finalizer, timer>>

\* A cancellation that leaves the callback in the deque.
CancelLeavingCallback(c) ==
  /\ c \in Asyncs
  /\ lop[c].step = "wait"
  /\ Goto(c, "cancelled")
  /\ UNCHANGED <<lockVars, pc, held, exc, ahead>>

\* A suspended task is cancelled: the cancellation is raised at `await
\* future`, woken or not, and the finally clause removes the callback.
Cancel(c) ==
  LET l == lop[c].lock IN
  /\ c \in Asyncs
  /\ lop[c].step = "wait"
  /\ waiters' = [waiters EXCEPT ![l] = RemoveFrom(@, c)]
  /\ Goto(c, "cancelled")
  /\ UNCHANGED <<locked, signal, deferred, finalizer, timer, pc, held, exc, ahead>>

\* `except cancelled: if not self._lock.locked(): self._wake_up_next(); raise`
CancelPass(c) ==
  LET l == lop[c].lock IN
  /\ lop[c].step = "cancelled"
  /\ IF ~locked[l] /\ ~WakeRaises(l) THEN WakeUpNext(l) ELSE UNCHANGED signal
  /\ Raise(c, IF ~locked[l] /\ WakeRaises(l) THEN "RuntimeError" ELSE "Cancelled")
  /\ LeaveQueue(c, {})
  /\ UNCHANGED <<locked, waiters, deferred, finalizer, timer, held>>

\* ------------------------------------------------------ ResetLock.release
\* `if self.deferred is not None: return` reads __deferred twice: the test
\* `if self.__deferred:` and then `self.__deferred.when()`.
ReleaseCheck(c) ==
  LET l == lop[c].lock IN
  /\ lop[c].step = "release"
  /\ Goto(c, IF deferred[l] # 0 THEN "when" ELSE "wake")
  /\ UNCHANGED <<lockVars, pc, held, exc, ahead>>

\* The second read: the timer may have deleted __deferred since the test, and
\* None has no attribute `when`.
ReleaseWhen(c) ==
  LET l == lop[c].lock IN
  /\ lop[c].step = "when"
  /\ IF deferred[l] # 0 THEN Return(c) ELSE Raise(c, "AttributeError")
  /\ UNCHANGED <<lockVars, held, ahead>>

ReleaseWake(c) ==
  LET l == lop[c].lock IN
  /\ lop[c].step = "wake"
  /\ IF WakeRaises(l)
       THEN /\ Raise(c, "RuntimeError")
            /\ UNCHANGED signal
       ELSE /\ WakeUpNext(l)
            /\ Goto(c, "unlock")
            /\ UNCHANGED <<pc, exc>>
  /\ UNCHANGED <<locked, waiters, deferred, finalizer, timer, held, ahead>>

\* `self._lock.release()`: RuntimeError on an unlocked lock.
ReleaseUnlock(c) ==
  LET l == lop[c].lock IN
  /\ lop[c].step = "unlock"
  /\ IF locked[l]
       THEN /\ locked' = [locked EXCEPT ![l] = FALSE]
            /\ Return(c)
       ELSE /\ Raise(c, "RuntimeError")
            /\ UNCHANGED locked
  /\ UNCHANGED <<waiters, signal, deferred, finalizer, timer, held, ahead>>

\* -------------------------------------------------------- ResetLock.defer
FreeTimers(l) == {i \in TimerIds : timer[l][i].st = "off"}

\* What calling __finalizer does to the timers: `finished.set()` stops the
\* timer it was made for when that one is still waiting; a timer already past
\* its `if not self.finished.is_set()` test runs on.
Finalized(l) ==
  [i \in TimerIds |->
     IF i = finalizer[l] /\ timer[l][i].st = "wait" THEN TimerOff ELSE timer[l][i]]

\* `if not self.locked(): return`; then the setter of _deferred up to
\* `value.start()`: the previous timer is stopped and the new timer thread runs.
DeferStart(c) ==
  LET l == lop[c].lock IN
  /\ lop[c].step = "defer"
  /\ IF ~locked[l]
       THEN /\ Return(c)
            /\ UNCHANGED <<timer, finalizer>>
       ELSE LET i == CHOOSE j \in FreeTimers(l) : \A k \in FreeTimers(l) : j <= k IN
            /\ FreeTimers(l) # {}
            /\ timer' = [timer EXCEPT ![l] =
                           [Finalized(l) EXCEPT ![i] =
                              [st |-> "wait", dl |-> lop[c].arg, el |-> 0]]]
            /\ finalizer' = [finalizer EXCEPT ![l] = 0]
            /\ lop' = [lop EXCEPT ![c].step = "assign", ![c].arg = i]
            /\ UNCHANGED <<pc, exc>>
  /\ UNCHANGED <<locked, waiters, signal, deferred, held, ahead>>

\* `self.__deferred = value; self.__finalizer = weakref.finalize(...)`
DeferAssign(c) ==
  LET l == lop[c].lock IN
  /\ lop[c].step = "assign"
  /\ deferred' = [deferred EXCEPT ![l] = lop[c].arg]
  /\ finalizer' = [finalizer EXCEPT ![l] = lop[c].arg]
  /\ Return(c)
  /\ UNCHANGED <<locked, waiters, signal, timer, held, ahead>>

\* ------------------------------------------- _ThreadTimer and _release
\* threading.Timer.run: `self.finished.wait(self.interval)` has timed out.
Expired(t) == t.el >= t.dl

\* `if not self.finished.is_set(): self.function(...)`
TimerFire(l, i) ==
  /\ timer[l][i].st = "wait"
  /\ Expired(timer[l][i])
  /\ timer' = [timer EXCEPT ![l][i].st = "del"]
  /\ UNCHANGED <<locked, waiters, signal, deferred, finalizer, callVars>>

\* `del self._deferred`: `assert self.locked()`, `self.__finalizer()`,
\* `del self.__deferred`.  A failed assertion, or an attribute that is not
\* set, ends the timer thread with an exception; under python -O the
\* assertion is not evaluated.
TimerDelete(l, i) ==
  /\ timer[l][i].st = "del"
  /\ \/ /\ ~locked[l]
        /\ timer' = [timer EXCEPT ![l][i] = TimerOff]
        /\ UNCHANGED <<deferred, finalizer>>
     \/ /\ finalizer' = [finalizer EXCEPT ![l] = 0]
        /\ IF deferred[l] = 0
             THEN /\ timer' = [timer EXCEPT ![l] = [Finalized(l) EXCEPT ![i] = TimerOff]]
                  /\ UNCHANGED deferred
             ELSE /\ timer' = [timer EXCEPT ![l] =
                                 [Finalized(l) EXCEPT ![i] =
                                    [timer[l][i] EXCEPT !.st = "wake"]]]
                  /\ deferred' = [deferred EXCEPT ![l] = 0]
  /\ UNCHANGED <<locked, waiters, signal, callVars>>

\* `self._wake_up_next()` in the timer thread.
TimerWake(l, i) ==
  /\ timer[l][i].st = "wake"
  /\ IF WakeRaises(l)
       THEN /\ timer' = [timer EXCEPT ![l][i] = TimerOff]
            /\ UNCHANGED signal
       ELSE /\ WakeUpNext(l)
            /\ timer' = [timer EXCEPT ![l][i].st = "unlock"]
  /\ UNCHANGED <<locked, waiters, deferred, finalizer, callVars>>

\* `self._lock.release()` in the timer thread.
TimerUnlock(l, i) ==
  /\ timer[l][i].st = "unlock"
  /\ locked' = [locked EXCEPT ![l] = FALSE]
  /\ timer' = [timer EXCEPT ![l][i] = TimerOff]
  /\ UNCHANGED <<waiters, signal, deferred, finalizer, callVars>>

\* --------------------------------------------- callers of a bare ResetLock
\* The usage of the class docstring and of the module's own demonstration:
\*     [async] with lock: ...; lock.defer(d); ...
\* on the one lock "api": each caller runs one with statement and calls defer
\* at most once in it.
WithEnter(c) ==
  /\ pc[c] = "idle"
  /\ lop[c].step = "none"
  /\ lop' = [lop EXCEPT ![c] = Call(c, "enter", "api", 0, "in", "failed")]
  /\ UNCHANGED <<lockVars, pc, held, exc, ahead, flowVars>>

WithDefer(c, d) ==
  /\ pc[c] = "in"
  /\ lop[c].step = "none"
  /\ lop' = [lop EXCEPT ![c] = Call(c, "defer", "api", d, "tail", "tail")]
  /\ UNCHANGED <<lockVars, pc, held, exc, ahead, flowVars>>

\* __exit__ / __aexit__: `self.release()`
WithExit(c) ==
  /\ pc[c] \in {"in", "tail"}
  /\ lop[c].step = "none"
  /\ lop' = [lop EXCEPT ![c] = Call(c, "release", "api", 0, "done", "failed")]
  /\ held' = [held EXCEPT ![c] = @ \ {"api"}]
  /\ UNCHANGED <<lockVars, pc, exc, ahead, flowVars>>

LockStep(c) ==
  /\ \/ EnterCheck(c) \/ EnterTry(c) \/ Enqueue(c) \/ Resume(c) \/ Dequeue(c)
     \/ Acquire(c) \/ Cancel(c) \/ CancelPass(c)
     \/ ReleaseCheck(c) \/ ReleaseWhen(c) \/ ReleaseWake(c) \/ ReleaseUnlock(c)
     \/ DeferStart(c) \/ DeferAssign(c)
  /\ UNCHANGED flowVars

TimerStep(l, i) ==
  /\ \/ TimerFire(l, i) \/ TimerDelete(l, i) \/ TimerWake(l, i) \/ TimerUnlock(l, i)
  /\ UNCHANGED flowVars

\* ------------------------------------------------- limiter.py: the inputs
\* Time is counted in ticks of TickSeconds seconds; the delays the model
\* feeds in (header values, backoff draws) are whole numbers of ticks.
NormalDelay == 30                \* TelegramLimiter(recruitment=False)
RecruitmentDelay == 180          \* TelegramLimiter(recruitment=True)
TickSeconds == NormalDelay
Ticks(seconds) == seconds \div TickSeconds
MaxAge == Ticks(RecruitmentDelay)  \* an older _last_request delays nothing
BackoffLimit == 6                \* _backoff[:6]
MaxBackoff == 1                  \* largest backoff delay drawn, in ticks

Max(a, b) == IF a >= b THEN a ELSE b
Pow2(n) == IF n = 0 THEN 1 ELSE IF n = 1 THEN 2 ELSE IF n = 2 THEN 4
           ELSE IF n = 3 THEN 8 ELSE IF n = 4 THEN 16 ELSE 32

\* A header of a response: absent, present but not an integer, or an integer.
Absent == [kind |-> "absent", val |-> 0]
Malformed == [kind |-> "bad", val |-> 0]
IntHeader(n) == [kind |-> "int", val |-> n]

\* _get_as_int: int(mapping[key]), the default on KeyError or ValueError.
GetAsInt(h, default) == IF h.kind = "int" THEN h.val ELSE default

RetryAfterHeaders == {Absent, Malformed, IntHeader(0), IntHeader(TickSeconds)}
RemainingHeaders == {Absent, Malformed, IntHeader(0), IntHeader(1)}
ResetHeaders == {Absent, IntHeader(0), IntHeader(TickSeconds)}
Statuses == {200, 404, 429, 500, 502, 503}

\* The responses the server may give.  A header the code does not read on the
\* path a response takes is left absent: Retry-After is read for a 429 only.
Responses ==
  {r \in [status : Statuses, retryAfter : RetryAfterHeaders,
          remaining : RemainingHeaders, reset : ResetHeaders] :
     /\ r.status # 429 => r.retryAfter = Absent
     /\ GetAsInt(r.remaining, 1) # 0 => r.reset = Absent}

LimiterKinds == {"plain", "telegram", "recruitment"}
Hosts == {"api", "other"}

\* getattr(self, "_recruitment_delay", None): -1 stands for None.
RecruitmentDelayOf(k) ==
  IF k = "recruitment" THEN RecruitmentDelay
  ELSE IF k = "telegram" THEN NormalDelay ELSE -1

\* `request.headers["Host"] == API_URL.netloc` and `url.host == API_URL.host`
\* A request is "api" (the API's URL), "other" (another host) or "apiport":
\* a URL on the API's host whose Host header is not the API's netloc, because
\* it carries a port or was set by the caller.
HostHeaderIsApi(h) == h = "api"
UrlHostIsApi(h) == h \in {"api", "apiport"}

NoNap == [dl |-> 0, el |-> 0]

\* sans.set_agent: the agents a script may pass, "" included, and the agent
\* that is stored for a non-empty one, with the script information appended.
AgentNames == {"", "a", "b"}
Stamp(x) == IF x = "a" THEN "a Python httpx sans" ELSE "b Python httpx sans"
NewCall ==
  [kind |-> "plain", host |-> "api",
   istg |-> FALSE,         \* is_telegram_limiter
   backoff |-> 0,          \* values drawn from the iterator `backoff`
   stack |-> <<>>,         \* lock_stack: the locks it will release, oldest first
   nap |-> NoNap,          \* the time.sleep / anyio.sleep in progress
   retry |-> 0,            \* `retry`, seconds, while escalating
   since |-> -1,           \* ticks since `before = time.monotonic()`, -1 when unset
   passed |-> FALSE,       \* _last_request was set after `before`
   after |-> "end",        \* what follows the unwinding of lock_stack
   status |-> 0,           \* status of the response handled last
   declared |-> 0,         \* its Retry-After as read by _get_as_int, default 0
   sends |-> 0,            \* requests yielded to the transport
   n5xx |-> 0,             \* 500/502 responses received
   n429 |-> 0,             \* 429 responses that were retried
   final |-> "none",       \* _response_hook: "quota" (returned) or "spent" (deferred)
   tier |-> 0]             \* the interval an escalation counted from _last_request, 0 if none

Napping(c) == call[c].nap.el < call[c].nap.dl
\* A sleep that returns at once, whatever the delay asked for.
NoSleep(seconds) == NoNap

Sleep(seconds) == [dl |-> Ticks(Max(seconds, 0)), el |-> 0]

\* ------------------------- RateLimiter.sync_auth_flow / async_auth_flow
\* The two flows differ only in how they wait (`with` or `async with`,
\* time.sleep or anyio.sleep): a thread runs the first, a task the second.

\* recruitment_delay, is_telegram_limiter; the Host test; for a
\* TelegramLimiter `enter_context(TelegramLimiter._lock)`, else
\* `enter_context(RateLimiter._lock)`.
Start(c, k, h) ==
  /\ pc[c] = "idle"
  /\ lop[c].step = "none"
  /\ call' = [call EXCEPT ![c] =
                [NewCall EXCEPT !.kind = k, !.host = h,
                                !.istg = (RecruitmentDelayOf(k) # -1)]]
  /\ IF HostHeaderIsApi(h)
       THEN /\ lop' = [lop EXCEPT ![c] =
                         IF RecruitmentDelayOf(k) # -1
                           THEN Call(c, "enter", "tg", 0, "gate", "unwind")
                           ELSE Call(c, "enter", "api", 0, "entered", "unwind")]
            /\ pc' = pc
       ELSE /\ pc' = [pc EXCEPT ![c] = "request"]
            /\ lop' = lop
  /\ UNCHANGED <<lockVars, held, exc, ahead, agent, tgAge, authVars, mirrorVars>>

\* A gate that takes the primary slot before it sleeps.
GateHoldingPrimary(c) ==
  /\ pc[c] = "gate"
  /\ lop[c].step = "none"
  /\ tgAge # -1
  /\ ~locked["api"]
  /\ locked' = [locked EXCEPT !["api"] = TRUE]
  /\ held' = [held EXCEPT ![c] = @ \cup {"api"}]
  /\ call' = [call EXCEPT
       ![c].stack = <<"tg", "api">>,
       ![c].nap = [dl |-> Ticks(RecruitmentDelayOf(call[c].kind)), el |-> 0]]
  /\ pc' = [pc EXCEPT ![c] = "pace"]
  /\ UNCHANGED <<waiters, signal, deferred, finalizer, timer, lop, exc, ahead, agent, tgAge, authVars, mirrorVars>>

\* `if TelegramLimiter._last_request is not None: time.sleep(max(
\*  _last_request + recruitment_delay - time.monotonic(), 0))`
Gate(c) ==
  /\ pc[c] = "gate"
  /\ lop[c].step = "none"
  /\ IF tgAge # -1
       THEN /\ call' = [call EXCEPT
                 ![c].stack = Append(@, "tg"),
                 ![c].nap = Sleep(RecruitmentDelayOf(call[c].kind) - tgAge * TickSeconds)]
            /\ pc' = [pc EXCEPT ![c] = "pace"]
            /\ lop' = lop
       ELSE /\ call' = [call EXCEPT ![c].stack = Append(@, "tg")]
            /\ lop' = [lop EXCEPT ![c] = Call(c, "enter", "api", 0, "entered", "unwind")]
            /\ pc' = pc
  /\ UNCHANGED <<lockVars, held, exc, ahead, agent, tgAge, authVars, mirrorVars>>

\* The pacing sleep is over: `lock_stack.enter_context(RateLimiter._lock)`
PaceDone(c) ==
  /\ pc[c] = "pace"
  /\ lop[c].step = "none"
  /\ ~Napping(c)
  /\ call' = [call EXCEPT ![c].nap = NoNap]
  /\ lop' = [lop EXCEPT ![c] = Call(c, "enter", "api", 0, "entered", "unwind")]
  /\ UNCHANGED <<lockVars, pc, held, exc, ahead, agent, tgAge, authVars, mirrorVars>>

\* `flow = self.auth_flow(request); _yield = next(flow)`: auth_flow runs
\* _request_hook for the API host, which raises AgentNotSetError when no agent
\* is set; then `backoff = _backoff[:6]` and the first `yield _yield`.
Request(c) ==
  /\ pc[c] \in {"entered", "request"}
  /\ lop[c].step = "none"
  /\ LET pushed == IF pc[c] = "entered" THEN Append(call[c].stack, "api")
                   ELSE call[c].stack IN
     IF UrlHostIsApi(call[c].host) /\ agent = ""
       THEN /\ call' = [call EXCEPT ![c].stack = pushed, ![c].after = "unset"]
            /\ exc' = [exc EXCEPT ![c] = "AgentNotSetError"]
            /\ pc' = [pc EXCEPT ![c] = "unwind"]
       ELSE /\ call' = [call EXCEPT ![c].stack = pushed, ![c].backoff = 0,
                                    ![c].sends = @ + 1]
            /\ exc' = exc
            /\ pc' = [pc EXCEPT ![c] = "sent"]
  /\ UNCHANGED <<lockVars, lop, held, ahead, agent, tgAge, authVars, mirrorVars>>

\* The backoff delays `ldexp(random(), i)` lie in [0, 2**i): the whole ticks
\* among them, up to MaxBackoff.
BackoffDraws(i) ==
  {d \in {k * TickSeconds : k \in 0..MaxBackoff} : d < Pow2(i)}

\* 429 with a non-zero Retry-After.  `remaining and not is_telegram_limiter`:
\* the call marks itself as telegram traffic, notes `before` and closes
\* lock_stack; otherwise it sleeps `retry` seconds with lock_stack as it is.
Receive429(c, r) ==
  LET retry == GetAsInt(r.retryAfter, 0)
      remaining == GetAsInt(r.remaining, 0) IN
  /\ r.status = 429
  /\ retry # 0
  /\ IF remaining # 0 /\ ~call[c].istg
       THEN /\ call' = [call EXCEPT ![c].istg = TRUE, ![c].since = 0,
                                    ![c].retry = retry, ![c].after = "escalate",
                                    ![c].status = r.status, ![c].declared = retry,
                                    ![c].n429 = @ + 1]
            /\ pc' = [pc EXCEPT ![c] = "unwind"]
       ELSE /\ call' = [call EXCEPT ![c].nap = Sleep(retry),
                                    ![c].status = r.status, ![c].declared = retry,
                                    ![c].n429 = @ + 1]
            /\ pc' = [pc EXCEPT ![c] = "retry429"]
  /\ UNCHANGED <<lockVars, lop, held, exc, ahead, agent, tgAge, authVars, mirrorVars>>

\* `next(backoff)` on `_backoff[:6]`: StopIteration after six values.
CanBackoffOnceMore(c) == call[c].backoff <= BackoffLimit
CanBackoff(c) == call[c].backoff < BackoffLimit

\* 500 or 502 while `next(backoff)` still yields: sleep the drawn delay.
Receive5xx(c, r) ==
  /\ r.status \in {500, 502}
  /\ CanBackoff(c)
  /\ \E d \in BackoffDraws(call[c].backoff) :
       call' = [call EXCEPT ![c].nap = Sleep(d), ![c].backoff = @ + 1,
                            ![c].status = r.status, ![c].declared = 0,
                            ![c].n5xx = @ + 1]
  /\ pc' = [pc EXCEPT ![c] = "backoff"]
  /\ UNCHANGED <<lockVars, lop, held, exc, ahead, agent, tgAge, authVars, mirrorVars>>

\* Every other response, a 429 without a usable Retry-After and a 500/502
\* after the last backoff value: `flow.send(_sent)` resumes auth_flow, which
\* runs _response_hook for the API host: RateLimit-Remaining (default 1) of
\* zero defers the release by RateLimit-Reset (default 0) seconds.
RetryableServerError(c, r) ==
  r.status \in {500, 502} /\ CanBackoff(c)
Retryable(c, r) ==
  \/ r.status = 429 /\ GetAsInt(r.retryAfter, 0) # 0
  \/ r.status \in {500, 502} /\ CanBackoff(c)

ReceiveFinal(c, r) ==
  /\ ~Retryable(c, r)
  /\ call' = [call EXCEPT ![c].status = r.status,
                          ![c].declared = GetAsInt(r.retryAfter, 0),
                          ![c].n5xx = IF r.status \in {500, 502} THEN @ + 1 ELSE @,
                          ![c].final = IF /\ UrlHostIsApi(call[c].host)
                                          /\ GetAsInt(r.remaining, 1) = 0
                                         THEN "spent" ELSE "quota"]
  /\ IF UrlHostIsApi(call[c].host) /\ GetAsInt(r.remaining, 1) = 0
       THEN /\ lop' = [lop EXCEPT ![c] =
                         Call(c, "defer", "api", Ticks(Max(GetAsInt(r.reset, 0), 0)),
                              "finish", "finish")]
            /\ pc' = pc
       ELSE /\ pc' = [pc EXCEPT ![c] = "finish"]
            /\ lop' = lop
  /\ UNCHANGED <<lockVars, held, exc, ahead, agent, tgAge, authVars, mirrorVars>>

\* `_sent = yield _yield` returns the response of the transport.
Receive(c, r) ==
  /\ pc[c] = "sent"
  /\ lop[c].step = "none"
  /\ \/ Receive429(c, r)
     \/ Receive5xx(c, r)
     \/ ReceiveFinal(c, r)

\* The transport fails: the exception leaves the generator at the yield
\* (thrown into it and re-raised by auth_flow, or the generator is closed).
Abort(c) ==
  /\ pc[c] = "sent"
  /\ lop[c].step = "none"
  /\ exc' = [exc EXCEPT ![c] = "TransportError"]
  /\ pc' = [pc EXCEPT ![c] = "unwind"]
  /\ call' = [call EXCEPT ![c].after = "abort"]
  /\ UNCHANGED <<lockVars, lop, held, ahead, agent, tgAge, authVars, mirrorVars>>

\* sans.set_agent(x, _force=force), called by a script that is not in a
\* request: `if RateLimiter._agent and not _force: raise RuntimeError`, else
\* the agent becomes "" for an empty x and the stamped x otherwise.
AgentNeverLocked(force) == FALSE
AgentLocked(force) == agent # "" /\ ~force

SetAgent(c, x, force) ==
  /\ pc[c] = "idle"
  /\ lop[c].step = "none"
  /\ IF AgentLocked(force)
       THEN /\ exc' = [exc EXCEPT ![c] = "RuntimeError"]
            /\ pc' = [pc EXCEPT ![c] = "failed"]
            /\ agent' = agent
       ELSE /\ agent' = IF x = "" THEN "" ELSE Stamp(x)
            /\ UNCHANGED <<pc, exc>>
  /\ UNCHANGED <<lockVars, lop, held, ahead, call, tgAge, authVars, mirrorVars>>

\* A task is cancelled in `await anyio.sleep(...)`, of the pacing, of a 429 or
\* of a backoff: the cancellation leaves through `async with AsyncExitStack()`.
CancelSleep(c) ==
  /\ c \in Asyncs
  /\ pc[c] \in {"pace", "retry429", "backoff"}
  /\ lop[c].step = "none"
  /\ exc' = [exc EXCEPT ![c] = "Cancelled"]
  /\ pc' = [pc EXCEPT ![c] = "unwind"]
  /\ call' = [call EXCEPT ![c].after = "cancel", ![c].nap = NoNap]
  /\ UNCHANGED <<lockVars, lop, held, ahead, agent, tgAge, authVars, mirrorVars>>

\* After the 429 sleep: `lock_stack.enter_context(RateLimiter._lock)`
Retry429Done(c) ==
  /\ pc[c] = "retry429"
  /\ lop[c].step = "none"
  /\ ~Napping(c)
  /\ call' = [call EXCEPT ![c].nap = NoNap]
  /\ lop' = [lop EXCEPT ![c] = Call(c, "enter", "api", 0, "reentered", "unwind")]
  /\ UNCHANGED <<lockVars, pc, held, exc, ahead, agent, tgAge, authVars, mirrorVars>>

\* `backoff = _backoff[:6]; continue`: the same request is yielded again.
ResendOnOldBudget(c) ==
  /\ pc[c] = "reentered"
  /\ lop[c].step = "none"
  /\ call' = [call EXCEPT ![c].stack = Append(@, "api"), ![c].sends = @ + 1]
  /\ pc' = [pc EXCEPT ![c] = "sent"]
  /\ UNCHANGED <<lockVars, lop, held, exc, ahead, agent, tgAge, authVars, mirrorVars>>

Resend(c) ==
  /\ pc[c] = "reentered"
  /\ lop[c].step = "none"
  /\ call' = [call EXCEPT ![c].stack = Append(@, "api"), ![c].backoff = 0,
                          ![c].sends = @ + 1]
  /\ pc' = [pc EXCEPT ![c] = "sent"]
  /\ UNCHANGED <<lockVars, lop, held, exc, ahead, agent, tgAge, authVars, mirrorVars>>

\* After the backoff sleep: `continue  # retry with the same request`
BackoffDone(c) ==
  /\ pc[c] = "backoff"
  /\ lop[c].step = "none"
  /\ ~Napping(c)
  /\ call' = [call EXCEPT ![c].nap = NoNap, ![c].sends = @ + 1]
  /\ pc' = [pc EXCEPT ![c] = "sent"]
  /\ UNCHANGED <<lockVars, lop, held, exc, ahead, agent, tgAge, authVars, mirrorVars>>

\* StopIteration from flow.send: `if is_telegram_limiter:
\* TelegramLimiter._last_request = time.monotonic()`, then return.
Finish(c) ==
  /\ pc[c] = "finish"
  /\ lop[c].step = "none"
  /\ tgAge' = IF call[c].istg THEN 0 ELSE tgAge
  /\ call' = [d \in Callers |->
                IF d = c THEN [call[c] EXCEPT !.after = "end"]
                ELSE IF call[c].istg /\ call[d].since # -1
                  THEN [call[d] EXCEPT !.passed = TRUE]
                  ELSE call[d]]
  /\ pc' = [pc EXCEPT ![c] = "unwind"]
  /\ UNCHANGED <<lockVars, lop, held, exc, ahead, agent, authVars, mirrorVars>>

\* ExitStack.__exit__ / close(): the locks entered are released, last first;
\* an exception of one release does not stop the others.
KeepSlots(c) ==
  /\ pc[c] = "unwind"
  /\ lop[c].step = "none"
  /\ call[c].stack # <<>>
  /\ call' = [call EXCEPT ![c].stack = <<>>]
  /\ UNCHANGED <<lockVars, lop, held, pc, exc, ahead, agent, tgAge, authVars, mirrorVars>>

Unwind(c) ==
  LET st == call[c].stack
      l == st[Len(st)] IN
  /\ pc[c] = "unwind"
  /\ lop[c].step = "none"
  /\ st # <<>>
  /\ call' = [call EXCEPT ![c].stack = SubSeq(st, 1, Len(st) - 1)]
  /\ lop' = [lop EXCEPT ![c] = Call(c, "release", l, 0, "unwind", "unwind")]
  /\ held' = [held EXCEPT ![c] = @ \ {l}]
  /\ UNCHANGED <<lockVars, pc, exc, ahead, agent, tgAge, authVars, mirrorVars>>

\* lock_stack is empty.  An exception goes to the caller; after
\* `lock_stack.close()` of an escalation comes
\* `lock_stack.enter_context(TelegramLimiter._lock)`; else the call returns.
UnwindEnd(c) ==
  /\ pc[c] = "unwind"
  /\ lop[c].step = "none"
  /\ call[c].stack = <<>>
  /\ IF exc[c] # "none"
       THEN /\ pc' = [pc EXCEPT ![c] = "failed"]
            /\ UNCHANGED <<lop, call>>
       ELSE IF call[c].after = "escalate"
         THEN /\ lop' = [lop EXCEPT ![c] =
                           Call(c, "enter", "tg", 0, "escalated", "unwind")]
              /\ call' = [call EXCEPT ![c].after = "end"]
              /\ pc' = pc
         ELSE /\ pc' = [pc EXCEPT ![c] = "done"]
              /\ UNCHANGED <<lop, call>>
  /\ UNCHANGED <<lockVars, held, exc, ahead, agent, tgAge, authVars, mirrorVars>>

\* An escalation that sleeps the whole Retry-After from the moment it holds
\* the telegram lock.
EscalatedFromNow(c) ==
  /\ pc[c] = "escalated"
  /\ lop[c].step = "none"
  /\ call' = [call EXCEPT ![c].stack = Append(@, "tg"),
                          ![c].nap = Sleep(call[c].retry),
                          ![c].retry = 0, ![c].since = -1, ![c].passed = FALSE]
  /\ pc' = [pc EXCEPT ![c] = "retry429"]
  /\ UNCHANGED <<lockVars, lop, held, exc, ahead, agent, tgAge, authVars, mirrorVars>>

\* `if retry > 30:` the recruitment interval, else the normal one.
AlwaysNormalTier(c) == NormalDelay
InferredTier(c) ==
  IF call[c].retry > NormalDelay THEN RecruitmentDelay ELSE NormalDelay

\* The escalated call holds the telegram lock: `if _last_request and
\* _last_request > before`, `retry` is counted from _last_request with 180
\* (retry > 30) or 30 seconds, else from `before`; then the sleep.
Escalated(c) ==
  LET newer == tgAge # -1 /\ call[c].passed
      retry == IF newer
                 THEN InferredTier(c) - tgAge * TickSeconds
                 ELSE call[c].retry - call[c].since * TickSeconds IN
  /\ pc[c] = "escalated"
  /\ lop[c].step = "none"
  /\ call' = [call EXCEPT ![c].stack = Append(@, "tg"), ![c].nap = Sleep(retry),
                          ![c].retry = 0, ![c].since = -1, ![c].passed = FALSE,
                          ![c].tier = IF newer THEN InferredTier(c) ELSE 0]
  /\ pc' = [pc EXCEPT ![c] = "retry429"]
  /\ UNCHANGED <<lockVars, lop, held, exc, ahead, agent, tgAge, authVars, mirrorVars>>

\* ------------------------------------------------------------------ time
Advance(t) == IF t.st = "wait" /\ t.el < t.dl THEN [t EXCEPT !.el = @ + 1] ELSE t
AdvanceNap(n) == IF n.el < n.dl THEN [n EXCEPT !.el = @ + 1] ELSE n
AdvanceAge(a) == IF a >= 0 /\ a < MaxAge THEN a + 1 ELSE a

\* One unit of time passes for every timer that is waiting, every sleep and
\* every age.
Tick ==
  /\ timer' = [l \in Locks |-> [i \in TimerIds |-> Advance(timer[l][i])]]
  /\ call' = [c \in Callers |->
                [call[c] EXCEPT !.nap = AdvanceNap(@), !.since = AdvanceAge(@)]]
  /\ tgAge' = AdvanceAge(tgAge)
  /\ <<timer', call', tgAge'>> # <<timer, call, tgAge>>
  /\ twin' = [twin EXCEPT !.timer = [l \in Locks |-> [i \in TimerIds |-> Advance(@[l][i])]],
                          !.tgAge = AdvanceAge(@)]
  /\ UNCHANGED <<locked, waiters, signal, deferred, finalizer, callVars, agent, auth, pins, turn>>

\* ------------------------------------------------------ auth.py: NSAuth
\* A credential or the value of a header: None, the empty str, or a str.
None == "None"
Truthy(value) == value \notin {None, ""}
Passwords == {None, "", "p", "q"}
Autologins == {None, "", "k", "l"}
AutologinKeys == {"k", "l"}
PinValues == {None, "", "1", "2"}

\* No NSAuth was given credentials, _PINS is empty.
NoAuth == [password |-> None, autologin |-> None]
NoPins == [k \in AutologinKeys |-> None]

\* A setter that only stores its value.
SetterKeepingAutologin(a, value) == [a EXCEPT !.password = value]

\* password.setter: `if value: self._autologin = None`, then
\* `self._password = value`
PasswordSetter(a, value) ==
  [password |-> value,
   autologin |-> IF Truthy(value) THEN None ELSE a.autologin]

\* autologin.setter: `if value: self._password = None`, then
\* `self._autologin = value`
AutologinSetter(a, value) ==
  [password |-> IF Truthy(value) THEN None ELSE a.password,
   autologin |-> value]

\* __init__: `self._password = password; self.autologin = autologin`
Construct(password, autologin) ==
  AutologinSetter([password |-> password, autologin |-> None], autologin)

\* ------------------------------------------------- the second interpreter
\* One interpreter runs sync_auth_flow in a thread, another runs
\* async_auth_flow in a task; each has its own RateLimiter._lock,
\* TelegramLimiter._lock and TelegramLimiter._last_request.  The variables of
\* the locks and tgAge describe the interpreter of turn.active, twin holds
\* those of the other.  Where one interpreter only is modelled, twin is idle.
NoTwin ==
  [locked |-> [l \in Locks |-> FALSE],
   waiters |-> [l \in Locks |-> <<>>],
   deferred |-> [l \in Locks |-> 0],
   finalizer |-> [l \in Locks |-> 0],
   timer |-> [l \in Locks |-> [i \in TimerIds |-> TimerOff]],
   tgAge |-> -1]
NoTurn == [active |-> "t1", swapped |-> FALSE]

\* --------------------------------------------------------- specifications
\* After import, before or after set_agent: the locks are free, no request
\* has been made.
Init ==
  /\ LockInit
  /\ pc = [c \in Callers |-> "idle"]
  /\ call = [c \in Callers |-> NewCall]
  /\ agent \in {"", Stamp("a")}
  /\ tgAge = -1
  /\ auth = NoAuth
  /\ pins = NoPins
  /\ twin = NoTwin
  /\ turn = NoTurn

\* ResetLock alone: three callers, each running one with statement.
LockNext ==
  \/ \E c \in Callers : LockStep(c)
  \/ \E c \in Callers : WithEnter(c) \/ WithExit(c)
  \/ \E c \in Callers : \E d \in Delays : WithDefer(c, d)
  \/ \E i \in TimerIds : TimerStep("api", i)
  \/ Tick

LockSpec == Init /\ [][LockNext]_vars

\* One caller of a bare ResetLock that calls defer any number of times in its
\* with statement: `with lock: lock.defer(d); lock.defer(e); ...`
RearmCallers == {"t1"}

WithRearm(c, d) ==
  /\ pc[c] = "tail"
  /\ lop[c].step = "none"
  /\ lop' = [lop EXCEPT ![c] = Call(c, "defer", "api", d, "tail", "tail")]
  /\ UNCHANGED <<lockVars, pc, held, exc, ahead, flowVars>>

RearmNext ==
  \/ \E c \in RearmCallers : LockStep(c)
  \/ \E c \in RearmCallers : WithEnter(c) \/ WithExit(c)
  \/ \E c \in RearmCallers : \E d \in Delays : WithDefer(c, d) \/ WithRearm(c, d)
  \/ \E i \in TimerIds : TimerStep("api", i)
  \/ Tick

RearmSpec == Init /\ [][RearmNext]_vars

\* One call through RateLimiter or TelegramLimiter, the server answering
\* from Responses: every kind of limiter, host and response.  The locks are
\* uncontended: the caller may queue on a lock, but only behind itself, and
\* nobody wakes it.
SoloCallers == {"t1"}

FlowStep(c) ==
  \/ \E k \in LimiterKinds : \E h \in Hosts : Start(c, k, h)
  \/ Gate(c) \/ PaceDone(c) \/ Request(c)
  \/ \E r \in Responses : Receive(c, r)
  \/ Abort(c)
  \/ Retry429Done(c) \/ Resend(c) \/ BackoffDone(c)
  \/ Finish(c) \/ Unwind(c) \/ UnwindEnd(c) \/ Escalated(c)

SoloNext ==
  \/ \E c \in SoloCallers : LockStep(c)
  \/ \E c \in SoloCallers : FlowStep(c)
  \/ \E l \in Locks : \E i \in TimerIds : TimerStep(l, i)
  \/ Tick

\* The call may come at any time, before or after set_agent: before any
\* telegram request was made, or some ticks after the last one.
SoloInit ==
  /\ LockInit
  /\ pc = [c \in Callers |-> "idle"]
  /\ call = [c \in Callers |-> NewCall]
  /\ agent \in {"", Stamp("a")}
  /\ tgAge \in -1..MaxAge
  /\ auth = NoAuth
  /\ pins = NoPins
  /\ twin = NoTwin
  /\ turn = NoTurn

SoloSpec == SoloInit /\ [][SoloNext]_vars

\* Concurrent calls: every caller makes one request to the API host through a
\* RateLimiter.  The server answers 200 with any rate-limit
\* headers, or 429 with a Retry-After of one tick and no quota header.
ExchangeResponses ==
  {r \in Responses :
     \/ r.status = 200
     \/ /\ r.status = 429
        /\ r.retryAfter = IntHeader(TickSeconds)
        /\ r.remaining = Absent}

CallStep(c) ==
  \/ Start(c, "plain", "api")
  \/ Request(c)
  \/ \E r \in ExchangeResponses : Receive(c, r)
  \/ Abort(c) \/ CancelSleep(c)
  \/ Retry429Done(c) \/ Resend(c)
  \/ Finish(c) \/ Unwind(c) \/ UnwindEnd(c)

Next ==
  \/ \E c \in Callers : LockStep(c)
  \/ \E c \in Callers : CallStep(c)
  \/ \E i \in TimerIds : TimerStep("api", i)
  \/ Tick

Spec == Init /\ [][Next]_vars

\* Declared telegram calls: a thread and a task each make one request to the
\* API host through a TelegramLimiter, of either tier, and the server answers
\* 200 with any rate-limit headers; the transport may fail and the task may be
\* cancelled in its pacing sleep.
PaceCallers == {"t1", "a1"}

PaceResponses == {r \in Responses : r.status = 200}

PaceStep(c) ==
  \/ \E k \in {"telegram", "recruitment"} : Start(c, k, "api")
  \/ Gate(c) \/ PaceDone(c) \/ Request(c)
  \/ \E r \in PaceResponses : Receive(c, r)
  \/ Abort(c) \/ CancelSleep(c)
  \/ Finish(c) \/ Unwind(c) \/ UnwindEnd(c)

PaceNext ==
  \/ \E c \in PaceCallers : LockStep(c)
  \/ \E c \in PaceCallers : PaceStep(c)
  \/ \E i \in TimerIds : TimerStep("api", i)
  \/ Tick

PaceSpec == Init /\ [][PaceNext]_vars

\* Undeclared telegram traffic: two threads each make one request to the API
\* host through a plain RateLimiter, and the server answers 200, with or
\* without a deferral of no seconds, or 429 with a Retry-After of one tick and
\* quota remaining.
EscalationCallers == Threads

EscalationResponses ==
  {r \in Responses :
     \/ r.status = 200 /\ r.reset # IntHeader(TickSeconds)
     \/ /\ r.status = 429
        /\ r.retryAfter = IntHeader(TickSeconds)
        /\ r.remaining = IntHeader(1)}

EscalationStep(c) ==
  \/ Start(c, "plain", "api")
  \/ Request(c)
  \/ \E r \in EscalationResponses : Receive(c, r)
  \/ Retry429Done(c) \/ Resend(c)
  \/ Finish(c) \/ Unwind(c) \/ UnwindEnd(c) \/ Escalated(c)

EscalationNext ==
  \/ \E c \in EscalationCallers : LockStep(c)
  \/ \E c \in EscalationCallers : EscalationStep(c)
  \/ \E i \in TimerIds : TimerStep("api", i)
  \/ Tick

EscalationSpec == Init /\ [][EscalationNext]_vars

\* Declared and undeclared telegram traffic together: two threads each make
\* one request to the API host, through a RateLimiter or a TelegramLimiter of
\* either tier, and the server answers as in EscalationResponses.
OrderCallers == Threads

OrderStep(c) ==
  \/ \E k \in LimiterKinds : Start(c, k, "api")
  \/ Gate(c) \/ PaceDone(c) \/ Request(c)
  \/ \E r \in EscalationResponses : Receive(c, r)
  \/ Retry429Done(c) \/ Resend(c)
  \/ Finish(c) \/ Unwind(c) \/ UnwindEnd(c) \/ Escalated(c)

OrderNext ==
  \/ \E c \in OrderCallers : LockStep(c)
  \/ \E c \in OrderCallers : OrderStep(c)
  \/ \E i \in TimerIds : TimerStep("api", i)
  \/ Tick

OrderSpec == Init /\ [][OrderNext]_vars

\* Declared telegram traffic next to general traffic: two threads each make
\* one request to the API host, through a RateLimiter or a TelegramLimiter of
\* either tier, some time after the last telegram request or before any; the
\* server answers 200.
GateCallers == Threads

GateStep(c) ==
  \/ \E k \in LimiterKinds : Start(c, k, "api")
  \/ Gate(c) \/ PaceDone(c) \/ Request(c)
  \/ \E r \in PaceResponses : Receive(c, r)
  \/ Finish(c) \/ Unwind(c) \/ UnwindEnd(c)

GateNext ==
  \/ \E c \in GateCallers : LockStep(c)
  \/ \E c \in GateCallers : GateStep(c)
  \/ \E i \in TimerIds : TimerStep("api", i)
  \/ Tick

GateSpec == SoloInit /\ [][GateNext]_vars

\* Undeclared telegram traffic after or next to declared telegram traffic:
\* two threads each make one request to the API host through a limiter of
\* any kind; the server answers 200 with quota left, or 429 with quota left
\* and a Retry-After of one or two ticks.
TierCallers == Threads

TierResponses ==
  {[status |-> 200, retryAfter |-> Absent, remaining |-> Absent, reset |-> Absent]}
  \cup {[status |-> 429, retryAfter |-> IntHeader(k * TickSeconds),
          remaining |-> IntHeader(1), reset |-> Absent] : k \in 1..2}

TierStep(c) ==
  \/ \E k \in LimiterKinds : Start(c, k, "api")
  \/ Gate(c) \/ PaceDone(c) \/ Request(c)
  \/ \E r \in TierResponses : Receive(c, r)
  \/ Retry429Done(c) \/ Resend(c)
  \/ Finish(c) \/ Unwind(c) \/ UnwindEnd(c) \/ Escalated(c)

TierNext ==
  \/ \E c \in TierCallers : LockStep(c)
  \/ \E c \in TierCallers : TierStep(c)
  \/ Tick

TierSpec == SoloInit /\ [][TierNext]_vars

\* Requests whose Host header may differ from the host of their URL: two
\* threads each make one request through a plain RateLimiter to the API's
\* URL or to the API's host under another Host header; the server answers 200.
HostCallers == Threads

HostStep(c) ==
  \/ \E h \in {"api", "apiport"} : Start(c, "plain", h)
  \/ Request(c)
  \/ \E r \in PaceResponses : Receive(c, r)
  \/ Finish(c) \/ Unwind(c) \/ UnwindEnd(c)

HostNext ==
  \/ \E c \in HostCallers : LockStep(c)
  \/ \E c \in HostCallers : HostStep(c)
  \/ \E i \in TimerIds : TimerStep("api", i)
  \/ Tick

HostSpec == Init /\ [][HostNext]_vars

\* ------------------------------------------- lock.py: the lock of _state
\* _state.lock is an instance of the ResetLock of lock.py.  Its __enter__,
\* __aenter__, _wake_up_next, deleter of _deferred and _release read as those
\* of _lock.py; its `deferred`, its setter of _deferred, maybe_defer and
\* release are its own.  In StateSpec the lock "api" stands for this lock.

\* `deferred`: `if self.__deferred: return self.__deferred.when()`, else
\* `return 0.0`; never None.  Seconds are counted from the start of the timer.
StateDeferred(l) ==
  IF deferred[l] = 0
    THEN [none |-> FALSE, val |-> 0]
    ELSE [none |-> FALSE, val |-> timer[l][deferred[l]].dl * TickSeconds]

\* release(): `if self.deferred is not None: return`, then _wake_up_next()
\* and self._lock.release() as in _lock.py.
StateRelease(c) ==
  LET l == lop[c].lock IN
  /\ lop[c].step = "srelease"
  /\ IF StateDeferred(l).none THEN Goto(c, "wake") /\ UNCHANGED <<pc, exc>>
                              ELSE Return(c)
  /\ UNCHANGED <<lockVars, held, ahead, flowVars>>

\* __exit__ / __aexit__ of lock.py: `self.release()`
StateExit(c) ==
  /\ pc[c] \in {"in", "tail"}
  /\ lop[c].step = "none"
  /\ lop' = [lop EXCEPT ![c] = Call(c, "srelease", "api", 0, "done", "failed")]
  /\ held' = [held EXCEPT ![c] = @ \ {"api"}]
  /\ UNCHANGED <<lockVars, pc, exc, ahead, flowVars>>

\* The headers maybe_defer may be given; a Retry-After of two ticks tells the
\* deferral it arms from the one of RateLimit-Reset.
StateHeaders ==
  [retryAfter : {Absent, Malformed, IntHeader(0), IntHeader(2 * TickSeconds)},
   remaining : RemainingHeaders,
   reset : {Absent, Malformed, IntHeader(0), IntHeader(TickSeconds)}]

\* maybe_defer after `if not self.locked(): return`: Retry-After (default 0)
\* when it is not zero; else nothing when RateLimit-Remaining (default 1) is
\* not zero; else RateLimit-Reset (default 0).
ResetFirstDecision(h) ==
  IF GetAsInt(h.remaining, 1) = 0
    THEN [arm |-> TRUE, delay |-> GetAsInt(h.reset, 0)]
    ELSE IF GetAsInt(h.retryAfter, 0) # 0
      THEN [arm |-> TRUE, delay |-> GetAsInt(h.retryAfter, 0)]
      ELSE [arm |-> FALSE, delay |-> 0]

MaybeDeferDecision(h) ==
  IF GetAsInt(h.retryAfter, 0) # 0
    THEN [arm |-> TRUE, delay |-> GetAsInt(h.retryAfter, 0)]
    ELSE IF GetAsInt(h.remaining, 1) # 0
      THEN [arm |-> FALSE, delay |-> 0]
      ELSE [arm |-> TRUE, delay |-> GetAsInt(h.reset, 0)]

\* maybe_defer(h), called inside the with-block or after it, up to the
\* assignments of the setter of _deferred: `self.__finalizer()`,
\* `self.__deferred = value`, `self.__finalizer = weakref.finalize(...)`.
MaybeDefer(c, h) ==
  LET d == MaybeDeferDecision(h)
      free == FreeTimers("api")
      i == CHOOSE j \in free : \A k \in free : j <= k IN
  /\ pc[c] \in {"in", "done"}
  /\ lop[c].step = "none"
  /\ IF locked["api"] /\ d.arm
       THEN /\ free # {}
            /\ timer' = [timer EXCEPT !["api"] =
                           [Finalized("api") EXCEPT ![i] =
                              [st |-> "off", dl |-> Ticks(d.delay), el |-> 0]]]
            /\ deferred' = [deferred EXCEPT !["api"] = i]
            /\ finalizer' = [finalizer EXCEPT !["api"] = i]
            /\ lop' = [lop EXCEPT ![c] =
                         Call(c, "start", "api", i,
                              IF pc[c] = "in" THEN "tail" ELSE "over",
                              IF pc[c] = "in" THEN "tail" ELSE "over")]
            /\ pc' = pc
       ELSE /\ pc' = [pc EXCEPT ![c] = IF pc[c] = "in" THEN "tail" ELSE "over"]
            /\ UNCHANGED <<timer, deferred, finalizer, lop>>
  /\ UNCHANGED <<locked, waiters, signal, held, exc, ahead, flowVars>>

\* `value.start()`, the last statement of the setter.
StateStart(c) ==
  LET l == lop[c].lock
      i == lop[c].arg IN
  /\ lop[c].step = "start"
  /\ timer' = [timer EXCEPT ![l][i].st = "wait"]
  /\ Return(c)
  /\ UNCHANGED <<locked, waiters, signal, deferred, finalizer, held, ahead, flowVars>>

\* A thread and a task, each running one with statement on _state.lock,
\* with or without a maybe_defer in it, and possibly a maybe_defer after it.
StateCallers == {"t1", "a1"}

StateNext ==
  \/ \E c \in StateCallers : LockStep(c)
  \/ \E c \in StateCallers : WithEnter(c) \/ StateExit(c)
  \/ \E c \in StateCallers : StateRelease(c) \/ StateStart(c)
  \/ \E c \in StateCallers : \E h \in StateHeaders : MaybeDefer(c, h)
  \/ \E i \in TimerIds : TimerStep("api", i)
  \/ Tick

StateSpec == Init /\ [][StateNext]_vars

\* ------------------------------------------ sync_auth_flow / async_auth_flow
\* The same call made twice: by the thread "t1" through sync_auth_flow in one
\* interpreter and by the task "a1" through async_auth_flow in another, from
\* the same state of the locks and of _last_request.  Whenever one of the two
\* has taken a step, the other is given the turn to take the step that brings
\* it to the same state; time passes for both at once.
MirrorCallers == {"t1", "a1"}
Other(c) == IF c = "t1" THEN "a1" ELSE "t1"

Here ==
  [locked |-> locked, waiters |-> waiters, deferred |-> deferred,
   finalizer |-> finalizer, timer |-> timer, tgAge |-> tgAge]
WorldOf(c) == IF turn.active = c THEN Here ELSE twin

Renamed(q) == [i \in DOMAIN q |-> IF q[i] = "t1" THEN "a1" ELSE q[i]]
QueuedIn(c, w) == \E l \in Locks : \E i \in DOMAIN w.waiters[l] : w.waiters[l][i] = c

\* The two calls are at the same place with the same locals, and their
\* interpreters' locks, timers and _last_request are in the same state.  A
\* thread that was woken is one statement behind a task that was woken: its
\* callback is in the deque, where it may be called again, until
\* `finally: callback_deque.remove(...)`, which the task runs as it resumes.
Synced ==
  LET A == WorldOf("t1")
      B == WorldOf("a1") IN
  /\ A.locked = B.locked
  /\ A.deferred = B.deferred
  /\ A.finalizer = B.finalizer
  /\ A.timer = B.timer
  /\ A.tgAge = B.tgAge
  /\ pc["t1"] = pc["a1"]
  /\ exc["t1"] = exc["a1"]
  /\ call["t1"] = call["a1"]
  /\ held["t1"] = held["a1"]
  /\ \/ /\ lop["t1"] = lop["a1"]
        /\ \A l \in Locks : Renamed(A.waiters[l]) = B.waiters[l]
        /\ (signal["t1"] /\ QueuedIn("t1", A)) = (signal["a1"] /\ QueuedIn("a1", B))
     \/ /\ lop["t1"].step = "deq"
        /\ lop["a1"] = [lop["t1"] EXCEPT !.step = "acq"]
        /\ \A l \in Locks :
             B.waiters[l] = Renamed(IF l = lop["t1"].lock
                                      THEN RemoveFrom(A.waiters[l], "t1")
                                      ELSE A.waiters[l])

\* The responses the server gives to the mirrored calls: a 200 that leaves
\* quota and a 200 that spends it.
MirrorResponses ==
  {r \in Responses :
     /\ r.status = 200
     /\ \/ r.remaining = Absent
        \/ r.remaining = IntHeader(0) /\ r.reset = IntHeader(TickSeconds)}

\* The call is over: the script makes another one.
Again(c) ==
  /\ pc[c] \in {"done", "failed"}
  /\ lop[c].step = "none"
  /\ pc' = [pc EXCEPT ![c] = "idle"]
  /\ exc' = [exc EXCEPT ![c] = "none"]
  /\ call' = [call EXCEPT ![c] = NewCall]
  /\ UNCHANGED <<lockVars, lop, held, ahead, agent, tgAge, authVars, mirrorVars>>

MirrorFlow(c) ==
  \/ \E k \in {"plain", "telegram"} : Start(c, k, "api")
  \/ Again(c)
  \/ Gate(c) \/ PaceDone(c) \/ Request(c)
  \/ \E r \in MirrorResponses : Receive(c, r)
  \/ Abort(c)
  \/ Finish(c) \/ Unwind(c) \/ UnwindEnd(c)

\* A step of the call of c or of a timer of its interpreter.  No cancellation
\* is delivered: a thread cannot be given one.
WorldStep(c) ==
  \/ LockStep(c) /\ lop'[c].step # "cancelled"
  \/ MirrorFlow(c)
  \/ \E l \in Locks : \E i \in TimerIds : TimerStep(l, i)

Lead ==
  /\ Synced
  /\ ~turn.swapped
  /\ WorldStep(turn.active)

MirrorTick ==
  /\ Synced
  /\ ~turn.swapped
  /\ Tick

\* The other interpreter is given the turn.
Swap ==
  /\ ~turn.swapped
  /\ locked' = twin.locked
  /\ waiters' = twin.waiters
  /\ deferred' = twin.deferred
  /\ finalizer' = twin.finalizer
  /\ timer' = twin.timer
  /\ tgAge' = twin.tgAge
  /\ twin' = Here
  /\ turn' = [active |-> Other(turn.active), swapped |-> ~Synced]
  /\ UNCHANGED <<signal, callVars, call, agent, authVars>>

Follow ==
  /\ turn.swapped
  /\ ~Synced
  /\ WorldStep(turn.active)
  /\ Synced'

\* The thread, one statement behind, runs its `finally` first.
FollowTau ==
  /\ turn.swapped
  /\ ~Synced
  /\ lop[turn.active].step = "deq"
  /\ LockStep(turn.active)
  /\ ~Synced'

Settle ==
  /\ turn.swapped
  /\ Synced
  /\ turn' = [turn EXCEPT !.swapped = FALSE]
  /\ UNCHANGED <<lockVars, callVars, call, agent, tgAge, authVars, twin>>

MirrorNext ==
  \/ Lead
  \/ MirrorTick
  \/ Swap
  \/ Follow
  \/ FollowTau
  \/ Settle

MirrorInit ==
  /\ LockInit
  /\ pc = [c \in Callers |-> "idle"]
  /\ call = [c \in Callers |-> NewCall]
  /\ agent = Stamp("a")
  /\ tgAge = -1
  /\ auth = NoAuth
  /\ pins = NoPins
  /\ twin = [NoTwin EXCEPT !.tgAge = tgAge]
  /\ turn = NoTurn

MirrorSpec == MirrorInit /\ [][MirrorNext]_vars

\* A script that owns one NSAuth, constructed with any credentials: it
\* assigns password and autologin and hands responses of the API host to
\* _response_hook, outside any with statement on the lock.
AuthCallers == {"t1"}

AuthHeaders ==
  [autologin : Autologins, pin : PinValues,
   remaining : RemainingHeaders, reset : {Absent, IntHeader(TickSeconds)}]

AuthInit ==
  /\ LockInit
  /\ pc = [c \in Callers |-> "idle"]
  /\ call = [c \in Callers |-> NewCall]
  /\ agent = Stamp("a")
  /\ tgAge = -1
  /\ auth \in {Construct(p, a) : p \in Passwords, a \in Autologins}
  /\ pins = NoPins
  /\ twin = NoTwin
  /\ turn = NoTurn

\* `auth.password = value`
AssignPassword(c, value) ==
  /\ pc[c] = "idle"
  /\ lop[c].step = "none"
  /\ auth' = PasswordSetter(auth, value)
  /\ UNCHANGED <<lockVars, callVars, call, agent, tgAge, pins, mirrorVars>>

\* `auth.autologin = value`
AssignAutologin(c, value) ==
  /\ pc[c] = "idle"
  /\ lop[c].step = "none"
  /\ auth' = AutologinSetter(auth, value)
  /\ UNCHANGED <<lockVars, callVars, call, agent, tgAge, pins, mirrorVars>>

\* NSAuth._response_hook: a truthy X-Autologin is assigned to autologin and
\* a truthy X-Pin stored under it; then RateLimiter._response_hook, which
\* returns when RateLimit-Remaining (default 1) is not zero and else calls
\* RateLimiter._lock.defer with RateLimit-Reset (default 0).
ResponseHook(c, h) ==
  /\ pc[c] = "idle"
  /\ lop[c].step = "none"
  /\ IF Truthy(h.autologin)
       THEN /\ auth' = AutologinSetter(auth, h.autologin)
            /\ pins' = IF Truthy(h.pin) THEN [pins EXCEPT ![h.autologin] = h.pin]
                                        ELSE pins
       ELSE UNCHANGED <<auth, pins>>
  /\ IF GetAsInt(h.remaining, 1) # 0
       THEN UNCHANGED lop
       ELSE lop' = [lop EXCEPT ![c] =
                      Call(c, "defer", "api", Ticks(GetAsInt(h.reset, 0)),
                           "idle", "idle")]
  /\ UNCHANGED <<lockVars, pc, held, exc, ahead, call, agent, tgAge, mirrorVars>>

AuthNext ==
  \/ \E c \in AuthCallers : LockStep(c)
  \/ \E c \in AuthCallers : \E v \in Passwords : AssignPassword(c, v)
  \/ \E c \in AuthCallers : \E v \in Autologins : AssignAutologin(c, v)
  \/ \E c \in AuthCallers : \E h \in AuthHeaders : ResponseHook(c, h)

AuthSpec == AuthInit /\ [][AuthNext]_vars

\* Scripts that set the agent, any number of times and never with _force,
\* and make one request to the API host through a plain RateLimiter; the
\* server answers 200.
AgentCallers == {"t1", "a1"}

AgentStep(c) ==
  \/ \E x \in AgentNames : SetAgent(c, x, FALSE)
  \/ Start(c, "plain", "api")
  \/ Request(c)
  \/ \E r \in PaceResponses : Receive(c, r)
  \/ Finish(c) \/ Unwind(c) \/ UnwindEnd(c)

AgentNext ==
  \/ \E c \in AgentCallers : LockStep(c)
  \/ \E c \in AgentCallers : AgentStep(c)
  \/ \E i \in TimerIds : TimerStep("api", i)
  \/ Tick

AgentSpec == Init /\ [][AgentNext]_vars

\* Every thread, task and timer that can take a step takes one in the end, and
\* time passes: the interpreter schedules every runnable thread, the event
\* loop every ready task.
FairSoloSpec == SoloSpec /\ WF_vars(SoloNext)

\* ------------------------------------------------------------ properties
Inside(c, l) == l \in held[c]

\* C1: Mutual exclusion: no two callers of one ResetLock are inside their
\* with-blocks at the same time.
MutualExclusion ==
  \A l \in Locks : \A c1, c2 \in Callers :
    Inside(c1, l) /\ Inside(c2, l) => c1 = c2

\* C3: FIFO fairness: a caller that has acquired the lock left nobody behind
\* who was already queued when it began acquiring.
EnterSteps == {"enter", "try", "enq", "wait", "deq", "acq", "cancelled"}
FifoOrder ==
  \A c \in Callers : lop[c].step \notin EnterSteps => ahead[c] = {}

\* The deferred release the lock shows as pending, and whether the timer that
\* is to perform it still has time to wait.
Pending(l) == deferred[l] # 0
Waiting(l) ==
  /\ Pending(l)
  /\ timer[l][deferred[l]].st = "wait"
  /\ timer[l][deferred[l]].el < timer[l][deferred[l]].dl

\* C4: while a deferred release is pending and its time has not come, the
\* lock stays held, whatever release() calls run meanwhile, so that no other
\* caller can acquire it.
HeldWhileDeferred ==
  \A l \in Locks : Waiting(l) => locked[l]

\* C5: a deferred release that is pending has a running timer, one that is
\* waiting for its time or about to perform the release: the timer alone
\* will free the lock.
DeferredHasTimer ==
  \A l \in Locks : Pending(l) => timer[l][deferred[l]].st \in {"wait", "del"}

\* C7: a governed call that waits out a 429 while it holds the primary slot
\* (no escalation) sends the request again when the wait is over.
Retry429Resends ==
  \A c \in SoloCallers :
    (pc[c] = "retry429" /\ HostHeaderIsApi(call[c].host) /\ "api" \in held[c])
      ~> (pc[c] = "sent")

\* C10: a call that has sent its request comes to an end: it returns to its
\* caller, with the terminal response or with an exception.
Ended(c) == pc[c] \in {"done", "failed"}
CallTerminates ==
  \A c \in SoloCallers :
    (pc[c] = "sent" /\ HostHeaderIsApi(call[c].host)) ~> Ended(c)

\* C2: Serialization of governed exchanges: at most one governed call at a
\* time is between acquiring RateLimiter._lock and the end of its exchange,
\* that is about to send, awaiting a response, or in a retry delay.
Exchanging(c) ==
  /\ HostHeaderIsApi(call[c].host)
  /\ pc[c] \in {"entered", "sent", "backoff", "retry429", "reentered"}
Serialized ==
  \A c1, c2 \in Callers : Exchanging(c1) /\ Exchanging(c2) => c1 = c2

\* C6: Rate-limit deferral: while the deferred release that a response with
\* RateLimit-Remaining 0 armed on the primary slot is pending, the slot is
\* held as long as the reset time has not come, and the timer that is to
\* release it is running.
RateLimitDeferral ==
  Pending("api") =>
    /\ Waiting("api") => locked["api"]
    /\ \/ timer["api"][deferred["api"]].st \in {"wait", "del"}
       \/ \E c \in Callers : lop[c].step = "assign" /\ lop[c].lock = "api"

\* The call hands its response to the caller: auth_flow has returned.
Returns(c) == pc[c] = "finish"

BackoffBound ==
  \A c \in SoloCallers :
    call[c].n429 = 0 =>
      /\ call[c].sends <= 7
      /\ Returns(c) =>
           /\ exc[c] = "none"
           /\ IF call[c].status \in {500, 502}
                THEN call[c].n5xx = 7 /\ call[c].sends = 7
                ELSE call[c].n5xx <= 6 /\ call[c].sends = call[c].n5xx + 1

\* A call returns the seventh 500/502 in a row.
SeventhReturned ==
  \E c \in SoloCallers :
    /\ Returns(c)
    /\ call[c].n429 = 0
    /\ call[c].status \in {500, 502}
    /\ call[c].sends = 7

\* C11: Transport exceptions: a call whose exchange failed sends nothing
\* more, every release it makes on its way out is a real one (not the no-op
\* of a pending deferral), and the exception its caller gets is the one of
\* the transport.
Aborted(c) == call[c].after = "abort"
TransportErrorPropagates ==
  \A c \in Callers :
    Aborted(c) =>
      /\ pc[c] \in {"unwind", "failed"}
      /\ lop[c].step # "when"
      /\ exc[c] = "TransportError"

\* C12: Configuration error: with no agent set, a governed call sends no
\* request, and what its caller gets is AgentNotSetError, after releases
\* that were real ones.
Unset(c) == call[c].after = "unset"
AgentNotSet ==
  \A c \in Callers :
    /\ agent = "" /\ HostHeaderIsApi(call[c].host) => call[c].sends = 0
    /\ Unset(c) =>
         /\ pc[c] \in {"unwind", "failed"}
         /\ lop[c].step # "when"
         /\ exc[c] = "AgentNotSetError"

\* C13: Non-governed bypass: a call to another host than the API's never
\* tries to acquire a lock and never holds one, never runs the request hook
\* and never arms a deferral, whatever the responses.
Bypassing(c) == pc[c] # "idle" /\ ~HostHeaderIsApi(call[c].host)
NonGovernedBypass ==
  \A c \in SoloCallers :
    Bypassing(c) =>
      /\ lop[c].step = "none"
      /\ held[c] = {}
      /\ exc[c] # "AgentNotSetError"


\* C14: an asyncio task cancelled while it waits for the lock leaves with its
\* callback removed and without the lock, and when it had already been woken
\* and other callers are still queued, the first of them is woken in its place.
InQueue(c, l) == \E k \in 1..Len(waiters[l]) : waiters[l][k] = c

CancelLeaves(c) == lop[c].step = "cancelled" /\ lop'[c].step # "cancelled"

CancelHandsOver ==
  [][\A c \in Asyncs :
       CancelLeaves(c) =>
         LET l == lop[c].lock IN
         /\ l \notin held'[c]
         /\ ~InQueue(c, l)'
         /\ signal[c] /\ waiters[l] # <<>> => signal'[Head(waiters[l])]]_vars

\* C15: a task cancelled in one of the sleeps of the flow sends nothing more,
\* and what its caller gets is the cancellation, after releases of all the
\* locks it had entered that were real ones.
CancelledAsleep(c) == call[c].after = "cancel"

CancelReleases ==
  \A c \in Asyncs :
    CancelledAsleep(c) =>
      /\ pc[c] \in {"unwind", "failed"}
      /\ lop[c].step # "when"
      /\ exc[c] = "Cancelled"

\* The demonstration under a fair scheduler: whatever can take a step takes
\* one in the end, so every holder leaves its with-block and every timer
\* that was started runs.
FairLockSpec == LockSpec /\ WF_vars(LockNext)

\* C16: Starvation freedom: a caller, thread or task, that starts to acquire
\* the lock holds it in the end unless it is cancelled; the acquisition ends
\* in no other way.
Acquiring(c) == lop[c].step = "enter"

StarvationFree ==
  \A c \in Callers :
    Acquiring(c) ~> (lop[c].lock \in held[c] \/ exc[c] = "Cancelled")

\* C17: Secondary pacing: a declared telegram call to the API host sends its
\* request for the first time no earlier than its own interval (30 or 180
\* seconds) after the last _last_request recorded; while it sleeps at the gate
\* what is left of its sleep is what is left of the interval, and nothing
\* when the interval has elapsed.
MinInterval(c) == IF call[c].kind = "recruitment" THEN RecruitmentDelay ELSE NormalDelay

FirstSend(c) == pc[c] # "sent" /\ pc'[c] = "sent" /\ call'[c].sends = 1

SecondaryPacing ==
  /\ [][\A c \in PaceCallers :
          FirstSend(c) => tgAge = -1 \/ tgAge * TickSeconds >= MinInterval(c)]_vars
  /\ [](\A c \in PaceCallers :
          pc[c] = "pace" =>
            (call[c].nap.dl - call[c].nap.el) * TickSeconds
              = Max(MinInterval(c) - tgAge * TickSeconds, 0))

PacedOut ==
  \E c \in PaceCallers :
    /\ pc[c] = "pace"
    /\ call[c].nap.dl > 0
    /\ ~Napping(c)

\* C18: Escalation: an undeclared call to the API host that was answered 429
\* with a Retry-After and quota remaining goes on as a telegram call: it
\* holds TelegramLimiter._lock while it waits and resends, nothing but the
\* transport or a cancellation ends it before it completes, and when it
\* completes it sets _last_request.
Escalating(c) == call[c].kind = "plain" /\ call[c].istg

Completed(c) ==
  /\ pc[c] = "unwind"
  /\ call[c].after = "end"
  /\ lop[c].step \in {"release", "when", "wake", "unlock"}

EscalationUnderTelegram ==
  /\ [](\A c \in Callers :
          Escalating(c) /\ pc[c] \in {"retry429", "reentered", "sent", "finish"}
            => "tg" \in held[c])
  /\ [][\A c \in Callers :
          /\ Escalating(c) /\ exc[c] = "none" /\ exc'[c] # "none"
               => exc'[c] \in {"TransportError", "Cancelled"} \/ Completed(c)
          /\ Escalating(c) /\ pc[c] = "finish" /\ pc'[c] # "finish"
               => tgAge' = 0]_vars

\* C19: Escalation fallback: when no _last_request is known as the escalated
\* call gets the telegram lock, it sleeps what is left of the 429's Retry-After
\* counted from the 429, nothing if that time has passed already, and it does
\* not go on to resend before the sleep is over.
Fallback(c) == pc[c] = "escalated" /\ pc'[c] = "retry429" /\ tgAge = -1

Remainder(c) ==
  IF call[c].retry > call[c].since * TickSeconds
    THEN call[c].retry - call[c].since * TickSeconds
    ELSE 0

Running(l) == {i \in TimerIds : timer[l][i].st # "off"}

RearmingReplaces ==
  \A l \in Locks : Cardinality(Running(l)) <= 1

\* C21: Immediate release on available quota: a governed call whose terminal
\* response leaves quota (RateLimit-Remaining other than 0, absent or not an
\* integer) arms no deferral, and its release of RateLimiter._lock is a real
\* one: it is not held back by a pending deferral and it does not fail.
QuotaLeft(c) == HostHeaderIsApi(call[c].host) /\ call[c].final = "quota"

ImmediateRelease ==
  \A c \in Callers :
    QuotaLeft(c) =>
      /\ lop[c].step \notin {"defer", "assign", "when"}
      /\ exc[c] = "none"

\* ResetLock.deferred, read by sans.deferred(): None when __deferred is not
\* set, else `time.monotonic() - self.__deferred.when()`; when() is the
\* time the timer started plus its interval while it runs, and the present
\* time once it has ended.
DeferredProperty(l) ==
  IF deferred[l] = 0
    THEN [none |-> TRUE, val |-> 0]
    ELSE LET t == timer[l][deferred[l]] IN
         [none |-> FALSE,
          val |-> IF t.st = "off" THEN 0 ELSE (t.el - t.dl) * TickSeconds]

\* C22: sans.deferred() is None exactly when no deferred release is pending
\* on RateLimiter._lock, and while one is pending it is the number of seconds
\* left until the release, positive as long as the timer has time to wait.
SansDeferred ==
  LET d == DeferredProperty("api") IN
  /\ d.none <=> ~Pending("api")
  /\ Waiting("api") =>
       /\ d.val > 0
       /\ d.val = (timer["api"][deferred["api"]].dl
                    - timer["api"][deferred["api"]].el) * TickSeconds

\* C23: The agent can be set only once: set_agent without _force on a
\* non-empty agent raises RuntimeError and leaves the agent as it is, and
\* the agent only ever changes from empty to non-empty.
AgentSetOnce ==
  [][/\ agent' # agent => agent = "" /\ agent' # ""
     /\ \A c \in AgentCallers : \A x \in AgentNames :
          agent # "" /\ SetAgent(c, x, FALSE)
            => exc'[c] = "RuntimeError" /\ agent' = agent]_vars

AgentRefused ==
  \E c \in AgentCallers :
    /\ pc[c] = "failed"
    /\ exc[c] = "RuntimeError"
    /\ call[c] = NewCall
    /\ agent # ""

\* The step `self._lock.release()` of release(), taken by caller c, and of
\* _release(), taken by timer i.
CallerUnlocks(c, l) ==
  lop[c].step = "unlock" /\ lop[c].lock = l /\ lop'[c].step # "unlock"
TimerUnlocks(l, i) ==
  timer[l][i].st = "unlock" /\ timer'[l][i].st = "off"

\* C24: Exactly one real release per acquisition: the underlying lock is
\* released by the holder's release() or by the timer's _release(), never by
\* both, so that no release finds the lock unheld or held by another caller
\* inside its with-block.
OneRealRelease ==
  [][\A l \in Locks :
       /\ \A c \in Callers :
            CallerUnlocks(c, l) =>
              locked[l] /\ \A c2 \in Callers \ {c} : ~Inside(c2, l)
       /\ \A i \in TimerIds :
            TimerUnlocks(l, i) => locked[l]]_vars

\* The callers asleep in _threading_sleep_forever / _asyncio_sleep_forever on
\* lock l, and the threads and timers that are on their way to wake the head
\* of the queue or to take the lock: a releaser or a timer before its
\* `_wake_up_next()`, a cancelled task before its hand-over, a woken waiter
\* that has not acquired yet.
Asleep(l) == {c \in Callers : lop[c].lock = l /\ lop[c].step = "wait"}
WakeComing(l) ==
  \/ \E c \in Callers :
       lop[c].lock = l /\ lop[c].step \in {"release", "when", "wake", "cancelled", "deq", "acq"}
  \/ \E i \in TimerIds : timer[l][i].st # "off"

\* C25: No lost wakeup: a ResetLock is never free, with no deferred release
\* pending and nobody about to wake a waiter, while callers sleep in its
\* queue and none of them has been signalled.
NoLostWakeup ==
  \A l \in Locks :
    ~ /\ ~locked[l]
      /\ ~Pending(l)
      /\ waiters[l] # <<>>
      /\ Asleep(l) # {}
      /\ \A c \in Asleep(l) : ~signal[c]
      /\ ~WakeComing(l)

\* C26: Slot ownership is reused on retry: a call never starts to acquire a
\* slot that it holds already; after a 429 wait or a 5xx backoff it resends
\* under the ownership it has.
Reacquiring(c) == lop[c].step \in EnterSteps /\ lop[c].lock \in held[c]
OwnershipReused ==
  \A c \in Callers : ~Reacquiring(c)

\* A call owns a slot from the return of its acquisition to the end of the
\* release() that lock_stack runs for it.  A deferred release is to come
\* while its timer thread is alive.
ReleaseSteps == {"release", "when", "wake", "unlock"}
Owns(c, l) ==
  \/ Inside(c, l)
  \/ lop[c].lock = l /\ lop[c].step \in ReleaseSteps
TimerPending(l) == \E i \in TimerIds : timer[l][i].st # "off"

\* C27: Held implies owned or deferred: a slot that is held is owned by an
\* active call or has a deferred release to come, and a call that has ended
\* owns no slot.
HeldImpliesOwned ==
  /\ \A l \in Locks :
       locked[l] => \/ \E c \in Callers : ~Ended(c) /\ Owns(c, l)
                    \/ TimerPending(l)
  /\ \A c \in Callers : Ended(c) => \A l \in Locks : ~Owns(c, l)

\* A caller is acquiring lock l: it is in __enter__ / __aenter__ of l.
Entering(c, l) == lop[c].lock = l /\ lop[c].step \in EnterSteps

\* C28: Lock ordering: no call waits to acquire the secondary slot while it
\* holds the primary slot, so no two calls wait for each other across the
\* two slots.
LockOrdering ==
  /\ \A c \in Callers : Entering(c, "tg") => ~Owns(c, "api")
  /\ \A c1, c2 \in Callers :
       ~ /\ Entering(c1, "tg") /\ Owns(c1, "api")
         /\ Entering(c2, "api") /\ Owns(c2, "tg")

EscalationWaits ==
  \E c \in OrderCallers : \E c2 \in OrderCallers \ {c} :
    /\ call[c].n429 > 0
    /\ lop[c].lock = "tg" /\ lop[c].step = "wait"
    /\ Inside(c2, "tg")
    /\ Entering(c2, "api")

\* The steps of a call that touch its retry budget: the resend that follows a
\* 429 wait, the retry of a 500/502, and a 500/502 that is not retried.
Resends429(c) == pc[c] = "reentered" /\ pc'[c] = "sent"
Retries5xx(c) == pc[c] = "sent" /\ pc'[c] = "backoff"
Keeps5xx(c) ==
  /\ pc[c] = "sent" /\ pc'[c] # "backoff"
  /\ call'[c].n5xx = call[c].n5xx + 1

\* C29: Backoff reset: a resend after a 429 gives the call its six 5xx
\* retries back; between two such resends every retried 500 or 502 takes one
\* of the same six, a 500/502 is passed on only when none is left, and
\* nothing else changes the budget.
BackoffReset ==
  [][\A c \in SoloCallers :
       /\ Resends429(c) => call'[c].backoff = 0
       /\ Retries5xx(c) =>
            /\ call[c].backoff < BackoffLimit
            /\ call'[c].backoff = call[c].backoff + 1
       /\ Keeps5xx(c) => call[c].backoff = BackoffLimit
       /\ (pc[c] # "idle" /\ ~Resends429(c) /\ ~Retries5xx(c)) =>
            call'[c].backoff = call[c].backoff]_vars

\* A call retries a seventh 500/502: a 429 retry came in between.
SeventhRetried ==
  \E c \in SoloCallers :
    /\ pc[c] = "backoff"
    /\ call[c].n5xx > BackoffLimit
    /\ call[c].n429 > 0

\* The call has handed a response of another status than 429, 500 and 502 to
\* auth_flow; the step in which it does so; the step in which it calls defer.
OtherStatus(c) ==
  call[c].final # "none" /\ call[c].status \notin {429, 500, 502}
HandsOver(c) == call[c].final = "none" /\ call'[c].final # "none"
CallsDefer(c) == lop[c].step # "defer" /\ lop'[c].step = "defer"

\* C30: All other statuses are terminal: after a response that is not 429,
\* 500 or 502 the call sends nothing more; it decides between release and
\* deferral once, on that response (a deferral exactly when the API host
\* reports no quota left), and it returns that response to its caller.
OtherStatusTerminal ==
  /\ [][\A c \in SoloCallers :
          /\ OtherStatus(c) =>
               /\ call'[c].sends = call[c].sends
               /\ call'[c].status = call[c].status
               /\ ~CallsDefer(c)
          /\ (HandsOver(c) /\ call'[c].status \notin {429, 500, 502}) =>
               (CallsDefer(c) <=> call'[c].final = "spent")]_vars
  /\ [](\A c \in SoloCallers :
          OtherStatus(c) =>
            /\ pc[c] \in {"sent", "finish", "unwind", "done", "failed"}
            /\ exc[c] = "none")

\* The call is in the pacing sleep that precedes its first send.
Pacing(c) == pc[c] = "pace" /\ lop[c].step = "none" /\ call[c].sends = 0

\* C31: The initial pacing wait does not block general traffic: a declared
\* telegram call that waits for the pacing interval before its first send
\* holds the secondary slot and does not hold the primary slot.
PacingLeavesPrimary ==
  \A c \in Callers :
    Pacing(c) => ~Owns(c, "api") /\ Inside(c, "tg")

\* A plain call has completed while a declared call still sleeps.
PlainCompletes ==
  \E c \in GateCallers : \E c2 \in GateCallers \ {c} :
    /\ Pacing(c) /\ Napping(c)
    /\ call[c2].kind = "plain"
    /\ pc[c2] = "done" /\ exc[c2] = "none"
    /\ call[c2].sends = 1
    /\ ~locked["api"]

\* The step `TelegramLimiter._last_request = time.monotonic()` of a call
\* marked as telegram traffic, and the calls that have taken it.
WritesLastRequest(c) ==
  pc[c] = "finish" /\ pc'[c] = "unwind" /\ call[c].istg
Wrote(c) ==
  call[c].istg /\ call[c].final # "none" /\ pc[c] \in {"unwind", "done", "failed"}

\* C32: lastDispatch ordering: a telegram call that completes sets
\* _last_request to the current time while it still holds the secondary slot,
\* and a call that ends by an exception or a cancellation has not written it.
LastDispatchOrdering ==
  /\ [][\A c \in SoloCallers :
          WritesLastRequest(c) =>
            /\ tgAge' = 0
            /\ HostHeaderIsApi(call[c].host) => Inside(c, "tg") /\ locked["tg"]]_vars
  /\ [](\A c \in SoloCallers : pc[c] = "failed" => ~Wrote(c))

\* The step in which an escalating call, holding the telegram lock, works out
\* its wait, and the seconds since _last_request at that moment.
Infers(c) == pc[c] = "escalated" /\ pc'[c] = "retry429"
Elapsed == tgAge * TickSeconds

\* C33 as stated: whenever a _last_request is known at an escalation, the
\* call waits until _last_request plus the interval that the elapsed time
\* points to: the normal interval while less than it has passed, the
\* recruitment interval after that.
TierByElapsed ==
  [][\A c \in TierCallers :
       Infers(c) /\ tgAge # -1 =>
         call'[c].nap.dl * TickSeconds >=
           (IF Elapsed >= NormalDelay THEN RecruitmentDelay ELSE NormalDelay) - Elapsed]_vars

\* C33: Tier inference on escalation: when _last_request was written after
\* the 429 came in, the interval is inferred from the 429's Retry-After
\* (180 seconds when it exceeds 30, else 30) and the call resends no earlier
\* than _last_request plus that interval; with an older _last_request the call
\* waits what is left of Retry-After, counted from the 429.
TierByRetryAfter ==
  [][\A c \in TierCallers :
       /\ Infers(c) /\ tgAge # -1 /\ call[c].passed =>
            /\ call'[c].tier = (IF call[c].retry > NormalDelay
                                  THEN RecruitmentDelay ELSE NormalDelay)
            /\ call'[c].nap.dl * TickSeconds = Max(call'[c].tier - Elapsed, 0)
       /\ Infers(c) /\ ~(tgAge # -1 /\ call[c].passed) =>
            /\ call'[c].tier = 0
            /\ call'[c].nap.dl * TickSeconds = Remainder(c)
       /\ (call[c].tier # 0 /\ call'[c].sends > call[c].sends) =>
            Elapsed >= call[c].tier]_vars

RecruitmentTierResent ==
  \E c \in TierCallers :
    /\ call[c].tier = RecruitmentDelay
    /\ call[c].sends = 2
    /\ Elapsed >= RecruitmentDelay

\* C34: _last_request is written only by a call that holds the secondary
\* slot at the moment of the write, whatever the host of the request and the
\* kind of the limiter.
WriterHoldsSecondary ==
  [][\A c \in SoloCallers :
       WritesLastRequest(c) => Inside(c, "tg") /\ locked["tg"]]_vars

\* The caller is in defer() of lock l.
Deferring(c, l) == lop[c].lock = l /\ lop[c].step \in {"defer", "assign"}

\* C35: Deferral only by the owner: defer() on the primary slot is invoked
\* only by a call that holds that slot, so that no call arms a deferral on
\* the hold of another.
DeferralByOwner ==
  \A c \in Callers :
    Deferring(c, "api") =>
      /\ Inside(c, "api")
      /\ \A c2 \in Callers \ {c} : ~Inside(c2, "api")

\* The callers that have a callback in the deque of lock l: those asleep in
\* sleep_forever, and the threads that were woken and have not yet run
\* `callback_deque.remove(lock.release)`.  Entries(c, l) counts c's callbacks.
InSleepForever(c, l) ==
  /\ lop[c].lock = l
  /\ \/ lop[c].step = "wait"
     \/ c \in Threads /\ lop[c].step = "deq"
Entries(c, l) == Cardinality({i \in 1..Len(waiters[l]) : waiters[l][i] = c})

\* C36: Waiter-queue hygiene: every entry of a lock's queue belongs to a
\* caller that is blocked in its acquire, each such caller has exactly one
\* entry, and a caller that has returned from acquire or left it by
\* cancellation has none.
QueueHygiene ==
  \A l \in Locks : \A c \in Callers :
    Entries(c, l) = IF InSleepForever(c, l) THEN 1 ELSE 0

CancelledLeftOthers ==
  \E c \in Asyncs :
    /\ lop[c].step = "cancelled"
    /\ Len(waiters[lop[c].lock]) > 0

\* The return of lock.py's release(), called by a holder at the end of its
\* with-block.
StateReleased(c) == lop[c].step = "srelease" /\ lop'[c].step = "none"

\* C38: in the ResetLock of lock.py, release() called by the holder when no
\* deferred release is pending frees the lock, so that a later acquire
\* succeeds.
StateReleaseFrees ==
  [][\A c \in StateCallers :
       StateReleased(c) /\ ~Pending("api") => ~locked'["api"]]_vars

\* The state maybe_defer leaves when it has armed a deferral of `seconds`:
\* a new timer of that delay is in __deferred, not yet started.
ArmedFor(seconds) ==
  /\ deferred'["api"] # 0
  /\ timer'["api"][deferred'["api"]] =
       [st |-> "off", dl |-> Ticks(seconds), el |-> 0]
  /\ deferred'["api"] # deferred["api"] \/ timer["api"][deferred["api"]].st = "off"
ArmsNothing == UNCHANGED lockVars

\* C39: lock.py maybe_defer(headers) on a held lock decides in this priority
\* order: a nonzero integer Retry-After arms a deferral of that many seconds
\* whatever the other headers; otherwise a RateLimit-Remaining that is
\* nonzero, absent or malformed arms nothing; otherwise a deferral of
\* RateLimit-Reset seconds (0 when absent or malformed) is armed.  On a lock
\* that is not held it arms nothing and changes no state of the lock.
MaybeDeferPriority ==
  [][\A c \in StateCallers : \A h \in StateHeaders :
       MaybeDefer(c, h) =>
         IF ~locked["api"] THEN ArmsNothing
         ELSE IF h.retryAfter.kind = "int" /\ h.retryAfter.val # 0
           THEN ArmedFor(h.retryAfter.val)
         ELSE IF h.remaining.kind # "int" \/ h.remaining.val # 0
           THEN ArmsNothing
         ELSE ArmedFor(IF h.reset.kind = "int" THEN h.reset.val ELSE 0)]_vars

\* A deferral of two ticks, which only Retry-After asks for, is armed and
\* about to be started.
RetryAfterArmed ==
  \E c \in StateCallers :
    /\ lop[c].step = "start"
    /\ timer["api"][lop[c].arg].dl = Ticks(2 * TickSeconds)

\* C40: NSAuth credential exclusivity: after construction and after any
\* sequence of password/autologin assignments and handled responses, at most
\* one of password and autologin is truthy; assigning a truthy autologin, or
\* receiving an X-Autologin response header, clears the stored password, and
\* assigning a truthy password clears the stored autologin.
CredentialExclusivity ==
  /\ [](~(Truthy(auth.password) /\ Truthy(auth.autologin)))
  /\ [][\A c \in AuthCallers :
          /\ \A v \in Autologins :
               AssignAutologin(c, v) /\ Truthy(v)
                 => auth'.password = None /\ auth'.autologin = v
          /\ \A h \in AuthHeaders :
               ResponseHook(c, h) /\ Truthy(h.autologin)
                 => auth'.password = None /\ auth'.autologin = h.autologin
          /\ \A v \in Passwords :
               AssignPassword(c, v) /\ Truthy(v)
                 => auth'.autologin = None /\ auth'.password = v]_vars

\* A response set the autologin "k" and its pin, then a password was
\* assigned and is the only credential.
PasswordAfterAutologin ==
  /\ auth = [password |-> "p", autologin |-> None]
  /\ pins["k"] = "1"

\* The two calls are at the same place, with the same locals, exception and
\* slots.
SameCall ==
  <<pc["t1"], exc["t1"], call["t1"], held["t1"]>>
    = <<pc["a1"], exc["a1"], call["a1"], held["a1"]>>

\* C37: sync/async equivalence: for the same request, limiter kind, initial
\* slot state and sequence of responses or injected exceptions,
\* sync_auth_flow and async_auth_flow perform the same sequence of slot
\* acquisitions and releases, waits, sends and lastDispatch writes, and end
\* with the same result: whatever step one of the two takes, the other has a
\* step that brings it to the same state.
FlowsMirrored ==
  turn.swapped /\ ~SameCall => ENABLED (Follow \/ FollowTau)

====
